---- MODULE Spec2Model ----
(***************************************************************************)
(* A model of Wiki_KPI_Report.py: a one-shot script that reads four        *)
(* spreadsheet exports, computes top-N tables and renders them to a PDF.   *)
(* Text is modelled as a sequence of one-character strings, so that        *)
(* parsing, formatting and tokenizing are computed and not assumed.        *)
(***************************************************************************)
EXTENDS Integers, Sequences, FiniteSets, TLC

VARIABLES
    pc,                    \* position of the script
    raised,                \* the stage whose unhandled error ended the run, or "none"
    stdout,                \* the lines printed so far
    pdf,                   \* wiki_kpi_report.pdf: <<>> until doc.build writes the story
    categories_df,         \* the categories frame as read
    formatted_start_date,
    formatted_end_date,
    category_data,
    questions_data,
    all_words,
    search_data,
    users_df,              \* the users frame after the views column is coerced
    user_data,
    story,
    queries,               \* searches_df[1] as read: the raw query cells
    searches_df_1          \* searches_df[1] after apply(clean_query)

vars == <<pc, raised, stdout, pdf, categories_df,
          formatted_start_date, formatted_end_date, category_data,
          questions_data, all_words, search_data, users_df, user_data,
          story, queries, searches_df_1>>

----------------------------------------------------------------------------
(* Characters and cells *)

DigitChars == <<"0", "1", "2", "3", "4", "5", "6", "7", "8", "9">>
IsDigit(c) == \E i \in 1..10 : DigitChars[i] = c
DigitVal(c) == (CHOOSE i \in 1..10 : DigitChars[i] = c) - 1

Min(a, b) == IF a < b THEN a ELSE b
Max(a, b) == IF a > b THEN a ELSE b

\* A spreadsheet cell as pandas hands it over: empty (NaN), a number, or text.
EmptyCell == [kind |-> "empty", num |-> 0, text |-> <<>>]
NumberCell(n) == [kind |-> "number", num |-> n, text |-> <<>>]
TextCell(s) == [kind |-> "text", num |-> 0, text |-> s]

\* A parsed timestamp, or NaT.
NaT == [nat |-> TRUE, y |-> 0, m |-> 0, d |-> 0]
Timestamp(y, m, d) == [nat |-> FALSE, y |-> y, m |-> m, d |-> d]

IsLeap(y) == (y % 4 = 0 /\ y % 100 # 0) \/ y % 400 = 0
DaysInMonth(y, m) ==
    IF m = 2 THEN (IF IsLeap(y) THEN 29 ELSE 28)
    ELSE IF m \in {4, 6, 9, 11} THEN 30 ELSE 31

\* The width the %m directive consumes at the head of s: 1[0-2]|0[1-9]|[1-9].
MonthWidth(s) ==
    IF Len(s) >= 2 /\ s[1] = "1" /\ s[2] \in {"0", "1", "2"} THEN 2
    ELSE IF Len(s) >= 2 /\ s[1] = "0" /\ IsDigit(s[2]) /\ s[2] # "0" THEN 2
    ELSE IF Len(s) >= 1 /\ IsDigit(s[1]) /\ s[1] # "0" THEN 1
    ELSE 0

\* The width the %d directive consumes: 3[0-1]|[1-2]\d|0[1-9]|[1-9]| [1-9].
DayWidth(s) ==
    IF Len(s) >= 2 /\ s[1] = "3" /\ s[2] \in {"0", "1"} THEN 2
    ELSE IF Len(s) >= 2 /\ s[1] \in {"1", "2"} /\ IsDigit(s[2]) THEN 2
    ELSE IF Len(s) >= 2 /\ s[1] \in {"0", " "} /\ IsDigit(s[2]) /\ s[2] # "0" THEN 2
    ELSE IF Len(s) >= 1 /\ IsDigit(s[1]) /\ s[1] # "0" THEN 1
    ELSE 0

\* The number a run of one or two digit characters (or " d") denotes.
FieldVal(s) ==
    IF Len(s) = 1 THEN DigitVal(s[1])
    ELSE IF s[1] = " " THEN DigitVal(s[2])
    ELSE 10 * DigitVal(s[1]) + DigitVal(s[2])

Drop(s, n) == SubSeq(s, n + 1, Len(s))

\* strptime with date_format '%m/%d/%Y', exact match, errors coerced to NaT.
strptime(s) ==
    LET mw == MonthWidth(s)
        r1 == Drop(s, mw)
        r2 == Drop(r1, 1)
        dw == DayWidth(r2)
        r3 == Drop(r2, dw)
        r4 == Drop(r3, 1)
    IN  IF mw = 0 \/ Len(r1) = 0 \/ r1[1] # "/" THEN NaT
        ELSE IF dw = 0 \/ Len(r3) = 0 \/ r3[1] # "/" THEN NaT
        ELSE IF Len(r4) # 4 \/ \E i \in 1..Len(r4) : ~IsDigit(r4[i]) THEN NaT
        ELSE LET m == FieldVal(SubSeq(s, 1, mw))
                 d == FieldVal(SubSeq(r2, 1, dw))
                 y == 1000 * DigitVal(r4[1]) + 100 * DigitVal(r4[2])
                          + 10 * DigitVal(r4[3]) + DigitVal(r4[4])
             IN  IF y >= 1 /\ d >= 1 /\ d <= DaysInMonth(y, m)
                 THEN Timestamp(y, m, d) ELSE NaT

\* A to_datetime that reads a number as a date.
to_datetime_reading_numbers(cell) ==
    IF cell.kind = "text" THEN strptime(cell.text)
    ELSE IF cell.kind = "number" THEN Timestamp(2023, 3, 15)
    ELSE NaT

\* pd.to_datetime(cell, format=date_format, errors='coerce') on one cell: an
\* empty cell is NaT, and a number is turned to its text, which the format
\* never matches.
to_datetime(cell) ==
    IF cell.kind = "text" THEN strptime(cell.text) ELSE NaT

MonthNames == <<"January", "February", "March", "April", "May", "June", "July",
                "August", "September", "October", "November", "December">>

\* strftime('%B %d, %Y'): month name, two-digit day, four-digit year.
strftime(t) ==
    <<MonthNames[t.m], " ",
      DigitChars[(t.d \div 10) + 1], DigitChars[(t.d % 10) + 1], ",", " ",
      DigitChars[((t.y \div 1000) % 10) + 1], DigitChars[((t.y \div 100) % 10) + 1],
      DigitChars[((t.y \div 10) % 10) + 1], DigitChars[(t.y % 10) + 1]>>

Unavailable == <<"Unavailable">>
DateErrorLine == "Error: Start or end date is missing or invalid in the Excel file."
SuccessLine == "PDF report generated successfully!"

----------------------------------------------------------------------------
(* clean_query *)

UpperLetters == <<"A", "B", "C", "D", "E", "F", "G", "H", "I", "J", "K", "L", "M",
                  "N", "O", "P", "Q", "R", "S", "T", "U", "V", "W", "X", "Y", "Z">>
LowerLetters == <<"a", "b", "c", "d", "e", "f", "g", "h", "i", "j", "k", "l", "m",
                  "n", "o", "p", "q", "r", "s", "t", "u", "v", "w", "x", "y", "z">>
IsUpper(c) == \E i \in 1..26 : UpperLetters[i] = c
IsLower(c) == \E i \in 1..26 : LowerLetters[i] = c
IsSpace(c) == c \in {" ", "\t"}

\* The characters the regular expression class \w matches (so \W is the rest).
IsWordChar(c) == IsUpper(c) \/ IsLower(c) \/ IsDigit(c) \/ c = "_"

\* str.lower on one character.
LowerChar(c) ==
    IF IsUpper(c) THEN LowerLetters[CHOOSE i \in 1..26 : UpperLetters[i] = c] ELSE c

lower(s) == [i \in 1..Len(s) |-> LowerChar(s[i])]

\* re.sub(r'\W+', ' ', s): every maximal run of non-word characters becomes
\* one space.
RECURSIVE re_sub(_)
re_sub(s) ==
    IF s = <<>> THEN <<>>
    ELSE IF IsWordChar(s[1]) THEN <<s[1]>> \o re_sub(Tail(s))
    ELSE IF Len(s) >= 2 /\ ~IsWordChar(s[2]) THEN re_sub(Tail(s))
    ELSE <<" ">> \o re_sub(Tail(s))

\* str.split(): the maximal runs of non-whitespace, in order.
RECURSIVE SplitFrom(_, _)
SplitFrom(s, cur) ==
    IF s = <<>> THEN (IF cur = <<>> THEN <<>> ELSE <<cur>>)
    ELSE IF IsSpace(s[1])
         THEN (IF cur = <<>> THEN <<>> ELSE <<cur>>) \o SplitFrom(Tail(s), <<>>)
         ELSE SplitFrom(Tail(s), Append(cur, s[1]))

split(s) == SplitFrom(s, <<>>)

clean_query(q) == split(lower(re_sub(q)))

----------------------------------------------------------------------------
(* Counter, most_common, nlargest *)

\* The number of rows the search table keeps (most_common(5)) and the user
\* table keeps (nlargest(10, 3)); the data rows start after the first 4.
TopWords == 5
TopUsers == 10
FirstDataRow == 4
LastCategoryRow == 14

Count(seq, x) == Cardinality({i \in 1..Len(seq) : seq[i] = x})

\* The keys of Counter(seq) in the order a dict keeps them: first insertion.
RECURSIVE DistinctInOrder(_, _)
DistinctInOrder(seq, seen) ==
    IF seq = <<>> THEN <<>>
    ELSE IF seq[1] \in seen THEN DistinctInOrder(Tail(seq), seen)
    ELSE <<seq[1]>> \o DistinctInOrder(Tail(seq), seen \cup {seq[1]})

\* Counter(seq).items(): <<key, count>> pairs in first-insertion order.
CounterOf(seq, keys) == [i \in 1..Len(keys) |-> <<keys[i], Count(seq, keys[i])>>]
Counter(seq) ==
    CHOOSE items \in {CounterOf(seq, keys) : keys \in {DistinctInOrder(seq, {})}} : TRUE

\* An insertion that puts x before the pairs equal to it.
RECURSIVE InsertUnstable(_, _)
InsertUnstable(s, x) ==
    IF s = <<>> THEN <<x>>
    ELSE IF s[1][2] > x[2] THEN <<s[1]>> \o InsertUnstable(Tail(s), x)
    ELSE <<x>> \o s

\* Insertion of pair x into a sequence sorted by descending second component,
\* behind every pair that is not smaller: equal pairs keep their order.
RECURSIVE InsertDesc(_, _)
InsertDesc(s, x) ==
    IF s = <<>> THEN <<x>>
    ELSE IF s[1][2] >= x[2] THEN <<s[1]>> \o InsertDesc(Tail(s), x)
    ELSE <<x>> \o s

\* sorted(items, key=second, reverse=True): a stable descending sort.
RECURSIVE SortDesc(_)
SortDesc(s) ==
    IF s = <<>> THEN <<>>
    ELSE InsertDesc(SortDesc(SubSeq(s, 1, Len(s) - 1)), s[Len(s)])

Head_n(s, n) == SubSeq(s, 1, Min(n, Len(s)))

\* A most_common that keeps one row too many.
most_common_one_more(items, n) == Head_n(SortDesc(items), n + 1)

\* Counter.most_common(n) is heapq.nlargest(n, items, key=count), which equals
\* sorted(items, key=count, reverse=True)[:n].
most_common(items, n) == Head_n(SortDesc(items), n)

\* pd.to_numeric(cell, errors='coerce'): a number stays, a text of digits is
\* read as that number, anything else is NaN (the empty cell).
RECURSIVE DigitsVal(_)
DigitsVal(s) ==
    IF s = <<>> THEN 0 ELSE 10 * DigitsVal(SubSeq(s, 1, Len(s) - 1)) + DigitVal(s[Len(s)])

to_numeric(cell) ==
    IF cell.kind = "number" THEN cell
    ELSE IF cell.kind = "text" /\ cell.text # <<>>
            /\ \A i \in 1..Len(cell.text) : IsDigit(cell.text[i])
         THEN NumberCell(DigitsVal(cell.text))
    ELSE EmptyCell

IsNaN(cell) == cell.kind # "number"

\* rows.nlargest(n, views), keep='first', on rows <<name, views>>: the rows
\* with a number sorted descending and stably, then the NaN rows in their
\* order, cut to n rows.
RECURSIVE SelectRows(_, _)
SelectRows(rows, wantNaN) ==
    IF rows = <<>> THEN <<>>
    ELSE IF IsNaN(rows[1][2]) = wantNaN THEN <<rows[1]>> \o SelectRows(Tail(rows), wantNaN)
    ELSE SelectRows(Tail(rows), wantNaN)

SortRowsDesc(rows) ==
    LET pairs == [i \in 1..Len(rows) |-> <<rows[i], rows[i][2].num>>]
        sorted == SortDesc(pairs)
    IN  [i \in 1..Len(sorted) |-> sorted[i][1]]

nlargest(rows, n) ==
    Head_n(SortRowsDesc(SelectRows(rows, FALSE)) \o SelectRows(rows, TRUE), n)

----------------------------------------------------------------------------
(* The script *)

\* The content of the cell at row r, column c (both from 1) of a sheet whose
\* cells the script passes on unread.
CellAt(r, c) ==
    TextCell(<<"r", DigitChars[(r \div 10) + 1], DigitChars[(r % 10) + 1],
               "c", DigitChars[c + 1]>>)

Label(s) == TextCell(<<s>>)

\* A file of the working directory: absent, or the sheet read_excel returns.
CategoriesFile(nrows, ncols, start, end) ==
    [exists |-> TRUE, nrows |-> nrows, ncols |-> ncols, start |-> start, end |-> end]
NoCategoriesFile ==
    [exists |-> FALSE, nrows |-> 0, ncols |-> 0, start |-> EmptyCell, end |-> EmptyCell]

QuestionsFile(ncols, dates) == [exists |-> TRUE, ncols |-> ncols, dates |-> dates]
NoQuestionsFile == [exists |-> FALSE, ncols |-> 0, dates |-> <<>>]

SearchesFile(ncols, cells) == [exists |-> TRUE, ncols |-> ncols, cells |-> cells]
NoSearchesFile == [exists |-> FALSE, ncols |-> 0, cells |-> <<>>]

UsersFile(ncols, rows) == [exists |-> TRUE, ncols |-> ncols, rows |-> rows]
NoUsersFile == [exists |-> FALSE, ncols |-> 0, rows |-> <<>>]

start_date_serial == categories_df.start
end_date_serial == categories_df.end

\* Flowables of the story.
Paragraph(text) == [type |-> "Paragraph", text |-> text, data |-> <<>>]
Spacer == [type |-> "Spacer", text |-> <<>>, data |-> <<>>]
Table(data) == [type |-> "Table", text |-> <<>>, data |-> data]

\* A constructor that creates the file at once.
SimpleDocTemplate_creating_file == <<Spacer>>

\* SimpleDocTemplate(pdf_path) keeps the path and writes nothing: the file
\* holds nothing of this run until doc.build.
SimpleDocTemplate == <<>>

Init ==
    /\ pc = "categories"
    /\ raised = "none"
    /\ stdout = <<>>
    /\ pdf = SimpleDocTemplate
    /\ categories_df = NoCategoriesFile
    /\ formatted_start_date = <<>>
    /\ formatted_end_date = <<>>
    /\ category_data = <<>>
    /\ questions_data = <<>>
    /\ all_words = <<>>
    /\ search_data = <<>>
    /\ users_df = <<>>
    /\ user_data = <<>>
    /\ story = <<>>
    /\ queries = <<>>
    /\ searches_df_1 = <<>>

\* An unhandled exception in the named stage ends the run.
Raise(stage) ==
    /\ pc' = "aborted"
    /\ raised' = stage

\* A slice that keeps every column.
category_rows_every_column(nrows, ncols) ==
    [i \in 1..Max(0, Min(LastCategoryRow, nrows) - FirstDataRow) |->
        [c \in 1..ncols |-> CellAt(FirstDataRow + i, c)]]

\* categories_df.iloc[4:14, :2].values.tolist()
category_rows(nrows, ncols) ==
    [i \in 1..Max(0, Min(LastCategoryRow, nrows) - FirstDataRow) |->
        [c \in 1..Min(2, ncols) |-> CellAt(FirstDataRow + i, c)]]

\* Lines 46-62: read categories_analytics.xls, format the date range, slice
\* the category rows.  f is the file: absent, or a sheet of nrows x ncols
\* whose cells (1,2) and (2,2) are f.start and f.end.
ReadCategories(files) ==
    /\ pc = "categories"
    /\ \E f \in files :
         IF ~f.exists \/ f.nrows < 2 \/ f.ncols < 2
         THEN /\ Raise("categories")
              /\ categories_df' = f
              /\ UNCHANGED <<stdout, pdf, formatted_start_date, formatted_end_date,
                             category_data>>
         ELSE \E start_date \in {to_datetime(f.start)} :
              \E end_date \in {to_datetime(f.end)} :
                  /\ categories_df' = f
                  /\ IF start_date.nat \/ end_date.nat
                     THEN /\ stdout' = Append(stdout, DateErrorLine)
                          /\ formatted_start_date' = Unavailable
                          /\ formatted_end_date' = Unavailable
                     ELSE /\ stdout' = stdout
                          /\ formatted_start_date' = strftime(start_date)
                          /\ formatted_end_date' = strftime(end_date)
                  /\ category_data' = category_rows(f.nrows, f.ncols)
                  /\ pc' = "questions"
                  /\ UNCHANGED <<raised, pdf>>
    /\ UNCHANGED <<questions_data, all_words, search_data, users_df, user_data,
                   story, queries, searches_df_1>>

\* pd.to_datetime(cell) with no format, on the cells the model feeds it: a
\* month/day/year text is that date, a small number is nanoseconds after
\* 1970-01-01, an empty cell is NaT, and any other text raises (NaT here; the
\* caller raises on NaT as well, in strftime).
to_datetime_infer(cell) ==
    IF cell.kind = "text" THEN strptime(cell.text)
    ELSE IF cell.kind = "number" THEN Timestamp(1970, 1, 1)
    ELSE NaT

\* Lines 65-69: read questions_analytics.xls (first row is the header row),
\* take columns 1, 3, 8 of frame rows 4..13 and format the date.  f.dates are
\* the cells of column 8, one per frame row.
ReadQuestions(files) ==
    /\ pc = "questions"
    /\ \E f \in files :
         \E last \in {Min(LastCategoryRow, Len(f.dates))} :
         \E parsed \in {[r \in 1..Len(f.dates) |-> to_datetime_infer(f.dates[r])]} :
             IF \/ ~f.exists
                \/ f.ncols < 9
                \/ \E r \in (FirstDataRow + 1)..last : parsed[r].nat
             THEN /\ Raise("questions")
                  /\ UNCHANGED questions_data
             ELSE /\ questions_data' =
                        <<<<Label("Article"), Label("Views"), Label("Last Updated")>>>>
                        \o [i \in 1..Max(0, last - FirstDataRow) |->
                              <<CellAt(FirstDataRow + i, 2), CellAt(FirstDataRow + i, 4),
                                TextCell(strftime(parsed[FirstDataRow + i]))>>]
                  /\ pc' = "searches"
                  /\ UNCHANGED raised
    /\ UNCHANGED <<stdout, pdf, categories_df,
                   formatted_start_date, formatted_end_date, category_data,
                   all_words, search_data, users_df, user_data, story, queries,
                   searches_df_1>>

RECURSIVE Flatten(_)
Flatten(lists) ==
    IF lists = <<>> THEN <<>> ELSE lists[1] \o Flatten(Tail(lists))

\* Lines 72-83: read searches.xls, tokenize column 1, count the words and
\* keep the most common.  f.cells is column 1; an empty sheet has no column
\* 1, and clean_query raises on a cell that is no text.
ReadSearches(files) ==
    /\ pc = "searches"
    /\ \E f \in files :
         IF \/ ~f.exists
            \/ f.ncols < 2
            \/ f.cells = <<>>
            \/ \E i \in 1..Len(f.cells) : f.cells[i].kind # "text"
         THEN /\ Raise("searches")
              /\ UNCHANGED <<queries, searches_df_1, all_words, search_data>>
         ELSE \E tokens \in {[i \in 1..Len(f.cells) |-> clean_query(f.cells[i].text)]} :
              \E words \in {Flatten(tokens)} :
              \E word_counts \in {Counter(words)} :
              \E most_common_words \in {most_common(word_counts, TopWords)} :
                  /\ queries' = f.cells
                  /\ searches_df_1' = tokens
                  /\ all_words' = words
                  /\ search_data' =
                        <<<<Label("Query"), Label("Searches")>>>>
                        \o [i \in 1..Len(most_common_words) |->
                              <<TextCell(most_common_words[i][1]),
                                NumberCell(most_common_words[i][2])>>]
                  /\ pc' = "users"
                  /\ UNCHANGED raised
    /\ UNCHANGED <<stdout, pdf, categories_df,
                   formatted_start_date, formatted_end_date, category_data,
                   questions_data, users_df, user_data, story>>

\* users_df[3] = pd.to_numeric(users_df[3], errors='coerce') on rows <<name, views>>
coerce_views(rows) == [i \in 1..Len(rows) |-> <<rows[i][1], to_numeric(rows[i][2])>>]

\* A slice that keeps the first rows.
iloc_whole(rows, first) == rows

\* users_df.iloc[4:]
iloc_from(rows, first) == SubSeq(rows, first + 1, Len(rows))

\* Lines 86-91: read users_analytics.xls, coerce the views column, keep the
\* 10 largest rows from row 4 on and cast their views to int, which raises
\* on NaN.  f.rows are the <<name, views>> cells of columns 0 and 3.
ReadUsers(files) ==
    /\ pc = "users"
    /\ \E f \in files :
         IF ~f.exists \/ f.ncols < 4 \/ f.rows = <<>>
         THEN /\ Raise("users")
              /\ UNCHANGED <<users_df, user_data>>
         ELSE \E coerced \in {coerce_views(f.rows)} :
              \E top_users \in {nlargest(iloc_from(coerced, FirstDataRow), TopUsers)} :
                  /\ users_df' = coerced
                  /\ IF \E i \in 1..Len(top_users) : IsNaN(top_users[i][2])
                     THEN /\ Raise("users")
                          /\ user_data' = top_users
                     ELSE /\ user_data' =
                                <<<<Label("User"), Label("Views")>>>> \o top_users
                          /\ pc' = "render"
                          /\ UNCHANGED raised
    /\ UNCHANGED <<stdout, pdf, categories_df,
                   formatted_start_date, formatted_end_date, category_data,
                   questions_data, all_words, search_data, story, queries,
                   searches_df_1>>

\* A story whose Users section comes before its Searches section.
story_of_users_first(start, end, categories, questions, searches, users) ==
    <<Paragraph(<<"Wiki KPI Report">>),
      Paragraph(<<"Data from ">> \o start \o <<" to ">> \o end),
      Spacer,
      Paragraph(<<"Top 10 Most Viewed Categories">>),
      Table(categories),
      Paragraph(<<"Top 10 Most Viewed Articles">>),
      Table(questions),
      Paragraph(<<"Top 10 Users by Articles Viewed">>),
      Table(users),
      Paragraph(<<"Top 5 Most Used Search Queries">>),
      Table(searches)>>

\* The flowables appended to the story, in order (lines 97-152).
story_of(start, end, categories, questions, searches, users) ==
    <<Paragraph(<<"Wiki KPI Report">>),
      Paragraph(<<"Data from ">> \o start \o <<" to ">> \o end),
      Spacer,
      Paragraph(<<"Top 10 Most Viewed Categories">>),
      Table(categories),
      Paragraph(<<"Top 10 Most Viewed Articles">>),
      Table(questions),
      Paragraph(<<"Top 5 Most Used Search Queries">>),
      Table(searches),
      Paragraph(<<"Top 10 Users by Articles Viewed">>),
      Table(users)>>

\* Lines 93-152: the title, the date range, and per table its heading and the
\* table; the category header row is inserted here.
Assemble ==
    /\ pc = "render"
    /\ \E categories \in {<<<<Label("Categories"), Label("Views")>>>> \o category_data} :
           /\ category_data' = categories
           /\ story' = story_of(formatted_start_date, formatted_end_date,
                                categories, questions_data, search_data, user_data)
    /\ pc' = "build"
    /\ UNCHANGED <<raised, stdout, pdf, categories_df,
                   formatted_start_date, formatted_end_date, questions_data,
                   all_words, search_data, users_df, user_data, queries,
                   searches_df_1>>

\* Lines 155-156: doc.build(story) writes the file, then the success line.
Build ==
    /\ pc = "build"
    /\ pdf' = story
    /\ stdout' = Append(stdout, SuccessLine)
    /\ pc' = "done"
    /\ UNCHANGED <<raised, categories_df,
                   formatted_start_date, formatted_end_date, category_data,
                   questions_data, all_words, search_data, users_df, user_data,
                   story, queries, searches_df_1>>

----------------------------------------------------------------------------
(* The input files the model runs the script on *)

MaxCategoryRows == 15
MaxCategoryCols == 3
MaxQuestionRows == 6
MaxQueryLen == 4
MaxSearchRows == 5
MaxUserRows == 12
MaxSpecialRows == 2

SeqsUpTo(S, n) == UNION {[1..k -> S] : k \in 0..n}


\* Date cells: texts month-separator-day-separator-year, an empty cell and a
\* spreadsheet serial date (45000 is 2023-03-15).
DateTexts ==
    {m \o <<sep>> \o d \o <<sep>> \o y :
        m \in {<<"2">>, <<"0", "2">>, <<"1", "2">>, <<"1", "3">>},
        d \in {<<"9">>, <<"2", "9">>, <<"3", "0">>},
        y \in {<<"2", "0", "2", "3">>, <<"2", "0", "2", "4">>, <<"2", "4">>},
        sep \in {"/", "-"}}
SerialDate == NumberCell(45000)
DateCells == {EmptyCell, SerialDate} \cup {TextCell(t) : t \in DateTexts}

March15 == TextCell(<<"0", "3", "/", "1", "5", "/", "2", "0", "2", "3">>)
April14 == TextCell(<<"4", "/", "1", "4", "/", "2", "0", "2", "3">>)
NotADate == TextCell(<<"n", "/", "a">>)

\* One well-formed file of each kind.
GoodCategoriesFile == CategoriesFile(14, 2, March15, April14)
GoodQuestionsFile == QuestionsFile(9, [r \in 1..5 |-> March15])
GoodSearchesFile ==
    SearchesFile(2, <<TextCell(<<"H", "e", "l", "l", "o", ",", " ", "W", "o", "r", "l", "d", "!">>),
                      TextCell(<<"h", "e", "l", "l", "o">>)>>)
HeaderRow(r, views) == <<CellAt(r, 1), views>>
HeaderRows(views) == [r \in 1..FirstDataRow |-> HeaderRow(r, views)]
GoodUsersFile ==
    UsersFile(4, HeaderRows(Label("Views"))
                 \o [i \in 1..3 |-> <<CellAt(FirstDataRow + i, 1), NumberCell(i)>>])

\* The files of the general runs.
AllCategoriesFiles ==
    {NoCategoriesFile} \cup
    {CategoriesFile(n, c, s, e) :
        n \in 0..MaxCategoryRows, c \in 1..MaxCategoryCols,
        s \in {EmptyCell, SerialDate, March15}, e \in {EmptyCell, SerialDate, April14}}

\* Date columns of n good cells, or with one cell replaced.
QuestionDates ==
    LET good(n) == [r \in 1..n |-> March15]
    IN  {good(n) : n \in 0..MaxQuestionRows} \cup
        {[r \in 1..n |-> IF r = p THEN c ELSE March15] :
            n \in 1..MaxQuestionRows, p \in 1..MaxQuestionRows,
            c \in {NotADate, EmptyCell, SerialDate}}
AllQuestionsFiles ==
    {NoQuestionsFile} \cup
    {QuestionsFile(c, d) : c \in {8, 9}, d \in {q \in QuestionDates : TRUE}}

AllSearchesFiles ==
    {NoSearchesFile, SearchesFile(1, GoodSearchesFile.cells), SearchesFile(2, <<>>),
     GoodSearchesFile,
     SearchesFile(2, <<TextCell(<<"w", "i", "k", "i">>)>>),
     SearchesFile(2, <<TextCell(<<"w", "i", "k", "i">>), EmptyCell>>),
     SearchesFile(2, <<TextCell(<<"w", "i", "k", "i">>), NumberCell(7)>>)}

\* Twelve data rows whose third (sheet row 7) holds the largest number.
TwelveUsers ==
    [i \in 1..12 |-> <<CellAt(FirstDataRow + i, 1), NumberCell(IF i = 3 THEN 50 ELSE i)>>]
AllUsersFiles ==
    {NoUsersFile, UsersFile(3, GoodUsersFile.rows), UsersFile(4, <<>>),
     GoodUsersFile,
     UsersFile(4, HeaderRows(Label("Views"))),
     UsersFile(4, HeaderRows(Label("Views")) \o TwelveUsers),
     UsersFile(4, GoodUsersFile.rows \o <<<<CellAt(8, 1), Label("n/a")>>>>)}

\* The files of the runs that vary one input and fix the others.
DateCategoriesFiles ==
    {NoCategoriesFile} \cup {CategoriesFile(6, 2, s, e) : s \in DateCells, e \in DateCells}

QueryChars == {"a", "B", "7", "_", ",", " "}
QueryTexts == SeqsUpTo(QueryChars, MaxQueryLen)
QuerySearchesFiles == {SearchesFile(2, <<TextCell(q)>>) : q \in QueryTexts}

SearchRowTexts ==
    {<<"a">>, <<"b">>, <<"c", " ", "d">>, <<"E", ",", " ", "f">>, <<"b", " ", "a">>}
CountSearchesFiles ==
    {SearchesFile(2, cells) :
        cells \in SeqsUpTo({TextCell(t) : t \in SearchRowTexts}, MaxSearchRows)}

\* Users sheets: in the four header rows the views cell is a text or a large
\* number; a data row holds 2 views, but for at most MaxSpecialRows rows,
\* which hold no number, 1, or the text "3".
BaseViews == NumberCell(2)
SpecialViews == {Label("n/a"), NumberCell(1), TextCell(<<"3">>)}
HeaderViews == {Label("Views"), NumberCell(9)}
UserRows(n, special) ==
    [i \in 1..n |-> <<CellAt(FirstDataRow + i, 1),
                      IF i \in DOMAIN special THEN special[i] ELSE BaseViews>>]
SpecialRows ==
    UNION {[S -> SpecialViews] :
             S \in {T \in SUBSET (1..MaxUserRows) : Cardinality(T) <= MaxSpecialRows}}
RankUsersFiles ==
    {UsersFile(4, HeaderRows(t[1]) \o UserRows(t[2], t[3])) :
        t \in {u \in HeaderViews \X (0..MaxUserRows) \X SpecialRows :
                  \A i \in DOMAIN u[3] : i <= u[2]}}

----------------------------------------------------------------------------
(* Specifications *)

Next ==
    \/ ReadCategories(AllCategoriesFiles)
    \/ ReadQuestions(AllQuestionsFiles)
    \/ ReadSearches(AllSearchesFiles)
    \/ ReadUsers(AllUsersFiles)
    \/ Assemble
    \/ Build

Spec == Init /\ [][Next]_vars

\* The runs over every pair of date cells.
NextDates ==
    \/ ReadCategories(DateCategoriesFiles)
    \/ ReadQuestions({GoodQuestionsFile, NoQuestionsFile})
    \/ ReadSearches({GoodSearchesFile})
    \/ ReadUsers({GoodUsersFile})
    \/ Assemble
    \/ Build

SpecDates == Init /\ [][NextDates]_vars

\* The runs over every short query text.
NextQueries ==
    \/ ReadCategories({GoodCategoriesFile})
    \/ ReadQuestions({GoodQuestionsFile})
    \/ ReadSearches(QuerySearchesFiles)
    \/ ReadUsers({GoodUsersFile})
    \/ Assemble
    \/ Build

SpecQueries == Init /\ [][NextQueries]_vars

\* The runs over the search sheets.
NextSearches ==
    \/ ReadCategories({GoodCategoriesFile})
    \/ ReadQuestions({GoodQuestionsFile})
    \/ ReadSearches(CountSearchesFiles)
    \/ ReadUsers({GoodUsersFile})
    \/ Assemble
    \/ Build

SpecSearches == Init /\ [][NextSearches]_vars

\* The runs over the users sheets.
NextUsers ==
    \/ ReadCategories({GoodCategoriesFile})
    \/ ReadQuestions({GoodQuestionsFile})
    \/ ReadSearches({GoodSearchesFile})
    \/ ReadUsers(RankUsersFiles)
    \/ Assemble
    \/ Build

SpecUsers == Init /\ [][NextUsers]_vars

----------------------------------------------------------------------------
(* The date range: C1, C9 *)

\* What a month/day/year text is, stated without the parser: three fields
\* split by two "/", a month 1..12 and a day of that month written with or
\* without a leading zero, and a year of four digits.
RefSlashes(text) == {i \in 1..Len(text) : text[i] = "/"}
RefField(text, k) ==
    LET a == CHOOSE i \in RefSlashes(text) : \A j \in RefSlashes(text) : i <= j
        b == CHOOSE i \in RefSlashes(text) : \A j \in RefSlashes(text) : i >= j
    IN  IF k = 1 THEN SubSeq(text, 1, a - 1)
        ELSE IF k = 2 THEN SubSeq(text, a + 1, b - 1)
        ELSE SubSeq(text, b + 1, Len(text))
RefWritten(n) ==
    IF n < 10 THEN {<<DigitChars[n + 1]>>, <<"0", DigitChars[n + 1]>>}
    ELSE {<<DigitChars[(n \div 10) + 1], DigitChars[(n % 10) + 1]>>}
RefYearOf(field) ==
    1000 * DigitVal(field[1]) + 100 * DigitVal(field[2]) + 10 * DigitVal(field[3])
        + DigitVal(field[4])
RefMonthDays == <<31, 28, 31, 30, 31, 30, 31, 31, 30, 31, 30, 31>>
RefDaysIn(m, y) ==
    IF m = 2 /\ y % 4 = 0 /\ (y % 100 # 0 \/ y % 400 = 0) THEN 29 ELSE RefMonthDays[m]
RefIsYear(field) == Len(field) = 4 /\ \A i \in 1..4 : IsDigit(field[i])
RefNumber(field) == CHOOSE n \in 1..31 : field \in RefWritten(n)
RefIsDate(text) ==
    /\ Cardinality(RefSlashes(text)) = 2
    /\ \E m \in 1..12 : RefField(text, 1) \in RefWritten(m)
    /\ \E d \in 1..31 : RefField(text, 2) \in RefWritten(d)
    /\ RefIsYear(RefField(text, 3))
    /\ RefYearOf(RefField(text, 3)) >= 1
    /\ RefNumber(RefField(text, 2))
         <= RefDaysIn(RefNumber(RefField(text, 1)), RefYearOf(RefField(text, 3)))
RefFormatted(text) ==
    <<MonthNames[RefNumber(RefField(text, 1))], " ",
      DigitChars[(RefNumber(RefField(text, 2)) \div 10) + 1],
      DigitChars[(RefNumber(RefField(text, 2)) % 10) + 1], ",", " ">>
    \o RefField(text, 3)

RefUnparsed(cell) == cell.kind # "text" \/ ~RefIsDate(cell.text)
DateCellsRead ==
    categories_df.exists /\ categories_df.nrows >= 2 /\ categories_df.ncols >= 2

\* C1: when either date cell is missing or is no month/day/year text, both
\* formatted dates are "Unavailable", the error line is printed, the date
\* stage raises nothing, and the run stops only where another stage raises;
\* a finished run has written the document and printed the
\* success line after the error line.
C1_DateGuard ==
    (DateCellsRead /\ (RefUnparsed(start_date_serial) \/ RefUnparsed(end_date_serial)))
    => /\ raised # "categories"
       /\ formatted_start_date = Unavailable
       /\ formatted_end_date = Unavailable
       /\ Len(stdout) >= 1 /\ stdout[1] = DateErrorLine
       /\ pc = "aborted" => raised \in {"questions", "searches", "users"}
       /\ pc = "done" => /\ pdf = story /\ story # <<>>
                         /\ stdout = <<DateErrorLine, SuccessLine>>

\* A finished run in which only the start cell was no date.
C1_Witness ==
    /\ pc = "done"
    /\ RefUnparsed(start_date_serial)
    /\ ~RefUnparsed(end_date_serial)
    /\ formatted_end_date = Unavailable
    /\ pdf # <<>>

\* A cell holds a valid date when it is a month/day/year text or a
\* spreadsheet serial date.
RefHoldsDate(cell) ==
    \/ cell.kind = "text" /\ RefIsDate(cell.text)
    \/ cell.kind = "number" /\ cell.num >= 1

\* C9, as claimed: when both date cells hold valid dates, a serial date
\* included, neither formatted date is "Unavailable", no error line is
\* printed, and the subtitle is "Data from <start> to <end>" with each date
\* that is a text formatted as "Month DD, YYYY".
C9_AsClaimed ==
    (DateCellsRead /\ RefHoldsDate(start_date_serial) /\ RefHoldsDate(end_date_serial))
    => /\ formatted_start_date # Unavailable
       /\ formatted_end_date # Unavailable
       /\ \A i \in 1..Len(stdout) : stdout[i] # DateErrorLine
       /\ start_date_serial.kind = "text"
            => formatted_start_date = RefFormatted(start_date_serial.text)
       /\ end_date_serial.kind = "text"
            => formatted_end_date = RefFormatted(end_date_serial.text)
       /\ story # <<>> =>
            story[2] = Paragraph(<<"Data from ">> \o formatted_start_date
                                 \o <<" to ">> \o formatted_end_date)

\* The part of C9 the code keeps: both cells month/day/year texts.
C9_TextDates ==
    (DateCellsRead /\ ~RefUnparsed(start_date_serial) /\ ~RefUnparsed(end_date_serial))
    => /\ formatted_start_date = RefFormatted(start_date_serial.text)
       /\ formatted_end_date = RefFormatted(end_date_serial.text)
       /\ \A i \in 1..Len(stdout) : stdout[i] # DateErrorLine
       /\ story # <<>> =>
            story[2] = Paragraph(<<"Data from ">> \o RefFormatted(start_date_serial.text)
                                 \o <<" to ">> \o RefFormatted(end_date_serial.text))

----------------------------------------------------------------------------
(* The search table: C4, C6, C7 *)

\* The reference tokenizer: the maximal runs of letters and digits, in order,
\* in lower case.
RefLetters == {UpperLetters[i] : i \in 1..26} \cup {LowerLetters[i] : i \in 1..26}
RefDigits == {DigitChars[i] : i \in 1..10}
RefStarts(q, chars) ==
    {i \in 1..Len(q) : q[i] \in chars /\ (i = 1 \/ q[i - 1] \notin chars)}
RefEnd(q, i, chars) ==
    CHOOSE j \in i..Len(q) : /\ \A k \in i..j : q[k] \in chars
                             /\ (j = Len(q) \/ q[j + 1] \notin chars)
RefLower(c) == IF \E i \in 1..26 : UpperLetters[i] = c
               THEN LowerLetters[CHOOSE i \in 1..26 : UpperLetters[i] = c] ELSE c
RefNth(starts, k) == CHOOSE i \in starts : Cardinality({j \in starts : j < i}) = k - 1
RefRuns(q, chars) ==
    [k \in 1..Cardinality(RefStarts(q, chars)) |->
        [n \in 1..(RefEnd(q, RefNth(RefStarts(q, chars), k), chars)
                     - RefNth(RefStarts(q, chars), k) + 1) |->
            RefLower(q[RefNth(RefStarts(q, chars), k) + n - 1])]]
RefTokenize(q) == RefRuns(q, RefLetters \cup RefDigits)

\* C4, as claimed: every query's tokens are those of the reference tokenizer,
\* which splits at every character that is no letter and no digit.
C4_AsClaimed ==
    \A i \in 1..Len(searches_df_1) : searches_df_1[i] = RefTokenize(queries[i].text)

\* What the code does: it splits at every character that is no letter, no
\* digit and no underscore.
C4_UnderscoreKept ==
    \A i \in 1..Len(searches_df_1) : searches_df_1[i] = RefRuns(queries[i].text, RefLetters \cup RefDigits \cup {"_"})

RefWords == {all_words[i] : i \in 1..Len(all_words)}
RefOccurrences(w) == Cardinality({i \in 1..Len(all_words) : all_words[i] = w})
RefFirst(w) == CHOOSE i \in 1..Len(all_words) : all_words[i] = w /\ \A j \in 1..(i - 1) : all_words[j] # w
RECURSIVE RefSumCounts(_)
RefSumCounts(rows) == IF rows = <<>> THEN 0 ELSE rows[1][2].num + RefSumCounts(Tail(rows))

\* C6: the Searches table is one header row and min(5, distinct tokens) data
\* rows; the tokens of the data rows are pairwise distinct, each count is the
\* token's number of occurrences in all_words and at least 1, and the counts
\* sum to at most the number of tokens.
C6_SearchBounds ==
    search_data # <<>> =>
        /\ search_data[1] = <<Label("Query"), Label("Searches")>>
        /\ Len(search_data) - 1 = Min(5, Cardinality(RefWords))
        /\ \A i \in 2..Len(search_data) :
              /\ Len(search_data[i]) = 2
              /\ search_data[i][1].kind = "text"
              /\ search_data[i][1].text \in RefWords
              /\ search_data[i][2].kind = "number"
              /\ search_data[i][2].num = RefOccurrences(search_data[i][1].text)
              /\ search_data[i][2].num >= 1
        /\ \A i, j \in 2..Len(search_data) : i # j => search_data[i][1] # search_data[j][1]
        /\ RefSumCounts(Tail(search_data)) <= Len(all_words)

\* More than five distinct tokens, five rows, a count above 1.
C6_Witness ==
    /\ Len(search_data) = 6
    /\ Cardinality(RefWords) > 5
    /\ \E i \in 2..6 : search_data[i][2].num >= 2
    /\ RefSumCounts(Tail(search_data)) < Len(all_words)

\* Token v ranks before token w: more occurrences, or as many and an earlier
\* first occurrence.
RefBefore(v, w) ==
    \/ RefOccurrences(v) > RefOccurrences(w)
    \/ RefOccurrences(v) = RefOccurrences(w) /\ RefFirst(v) < RefFirst(w)
SearchTokens == {search_data[i][1].text : i \in 2..Len(search_data)}

\* C7: the data rows are the first min(5, distinct tokens) tokens by rank:
\* each row ranks before the rows below it, and every row ranks before every
\* token left out.
C7_SearchSelection ==
    search_data # <<>> =>
        /\ Len(search_data) - 1 = Min(5, Cardinality(RefWords))
        /\ \A i, j \in 2..Len(search_data) :
              i < j => RefBefore(search_data[i][1].text, search_data[j][1].text)
        /\ \A v \in SearchTokens : \A w \in RefWords \ SearchTokens : RefBefore(v, w)

\* A tie inside the table and a tie across the cut-off.
C7_Witness ==
    /\ Len(search_data) = 6
    /\ \E i \in 2..5 : /\ search_data[i][2].num = search_data[i + 1][2].num
                       /\ search_data[i][2].num < search_data[2][2].num
    /\ \E w \in RefWords \ SearchTokens : RefOccurrences(w) = search_data[6][2].num

----------------------------------------------------------------------------
(* The users table: C3, C8 *)

UserHeader == <<Label("User"), Label("Views")>>

\* The data rows of user_data: all of it until the header row is inserted.
UserDataRows ==
    IF user_data # <<>> /\ user_data[1] = UserHeader THEN Tail(user_data) ELSE user_data

\* C3, as claimed: for every users sheet the data rows of the user
\* aggregator's table are at most 10, hold no row whose views cell is no
\* number, and are sorted by views, largest first.
C3_AsClaimed ==
    /\ Len(UserDataRows) <= 10
    /\ \A i \in 1..Len(UserDataRows) : UserDataRows[i][2].kind = "number"
    /\ \A i, j \in 1..Len(UserDataRows) :
          i < j => UserDataRows[i][2].num >= UserDataRows[j][2].num

\* What the code keeps: the same of every run that gets past the users
\* stage, where the cast of line 90 met no NaN.
C3_WhenCastSucceeds == pc \in {"render", "build", "done"} => C3_AsClaimed

\* The source rows the selection ranks: sheet rows 5 and later.
RefUserRows == 5..Len(users_df)
RefNumeric(i) == users_df[i][2].kind = "number"
RefRow(row) == CHOOSE i \in 1..Len(users_df) : users_df[i][1] = row[1]
RefAhead(i, j) ==
    \/ users_df[i][2].num > users_df[j][2].num
    \/ users_df[i][2].num = users_df[j][2].num /\ i < j
RefSelected == {RefRow(UserDataRows[k]) : k \in 1..Len(UserDataRows)}

\* C8: the data rows of the Users table are rows of the sheet from row 5 on,
\* min(10, number of such rows) of them; a row with more views, or with as
\* many and earlier in the sheet, is listed first and is kept before the
\* other is; so the first data row holds the largest number of views.
C8_UserSelection ==
    users_df # <<>> =>
        \A rows \in {UserDataRows} :
        \A at \in {[k \in 1..Len(rows) |-> RefRow(rows[k])]} :
        \A selected \in {{at[k] : k \in 1..Len(rows)}} :
            /\ Len(rows) = Min(10, Cardinality(RefUserRows))
            /\ \A k \in 1..Len(rows) : at[k] \in RefUserRows /\ users_df[at[k]] = rows[k]
            /\ \A k, l \in 1..Len(rows) :
                  (k < l /\ rows[k][2].kind = "number" /\ rows[l][2].kind = "number")
                  => RefAhead(at[k], at[l])
            /\ \A i \in RefUserRows \ selected :
                  RefNumeric(i) => \A j \in selected : RefNumeric(j) /\ RefAhead(j, i)
            /\ \A i \in RefUserRows :
                  RefNumeric(i) => /\ rows[1][2].kind = "number"
                                   /\ rows[1][2].num >= users_df[i][2].num

\* A finished run with ten data rows, a larger number in a header row, the
\* largest views not in the first data row of the sheet, and a row left out
\* that has as many views as the last row kept.
C8_Witness ==
    /\ pc = "done"
    /\ Len(UserDataRows) = 10
    /\ \E h \in 1..4 : users_df[h][2].kind = "number"
                       /\ users_df[h][2].num > UserDataRows[1][2].num
    /\ RefRow(UserDataRows[1]) > 5
    /\ \E i \in RefUserRows \ RefSelected :
          RefNumeric(i) /\ users_df[i][2].num = UserDataRows[10][2].num

----------------------------------------------------------------------------
(* The run and the document: C2, C5, C10 *)

Printed(line) == \E i \in 1..Len(stdout) : stdout[i] = line

\* C2: a stage's unhandled error ends the run with no document written and
\* no success line; the document is written only by the build step, after
\* all four tables are complete, and the success line is printed only after
\* the document is written.
C2_AllOrNothing ==
    /\ raised # "none" => pc = "aborted"
    /\ pc = "aborted" => /\ raised \in {"categories", "questions", "searches", "users"}
                         /\ pdf = <<>>
                         /\ ~Printed(SuccessLine)
    /\ pdf # <<>> => /\ pc = "done"
                     /\ pdf = story
                     /\ Len(category_data) >= 1
                     /\ Len(questions_data) >= 1
                     /\ Len(search_data) >= 1
                     /\ Len(user_data) >= 1 /\ user_data[1] = UserHeader
    /\ Printed(SuccessLine) => pdf # <<>> /\ stdout[Len(stdout)] = SuccessLine

\* A run that the cast of a NaN to int ended, after the date error line.
C2_Witness ==
    /\ pc = "aborted"
    /\ raised = "users"
    /\ \E i \in 1..Len(user_data) : user_data[i][2].kind # "number"
    /\ Printed(DateErrorLine)
    /\ pdf = <<>>

IsTable(flowable) == flowable.type = "Table"
IsContent(flowable) == flowable.type # "Spacer"
RefHeaders ==
    <<<<Label("Categories"), Label("Views")>>,
      <<Label("Article"), Label("Views"), Label("Last Updated")>>,
      <<Label("Query"), Label("Searches")>>,
      <<Label("User"), Label("Views")>>>>
RefHeadings ==
    <<"Top 10 Most Viewed Categories", "Top 10 Most Viewed Articles",
      "Top 5 Most Used Search Queries", "Top 10 Users by Articles Viewed">>
RefWidths == <<2, 3, 2, 2>>

\* C5: the story holds four tables, Categories, Articles, Searches, Users,
\* whose header rows have 2, 3, 2 and 2 cells, and every row of a table has
\* as many cells as its header row.
C5_ColumnCount ==
    story # <<>> =>
        LET tables == SelectSeq(story, IsTable)
        IN  /\ Len(tables) = 4
            /\ \A k \in 1..4 :
                  /\ tables[k].data[1] = RefHeaders[k]
                  /\ \A r \in 1..Len(tables[k].data) : Len(tables[k].data[r]) = RefWidths[k]

\* A finished run on a categories sheet of three columns and ten data rows.
C5_Witness ==
    /\ pc = "done"
    /\ categories_df.ncols = 3
    /\ Len(category_data) = 11
    /\ Len(questions_data) > 1
    /\ Len(search_data) > 1
    /\ Len(user_data) > 1

\* C10: the story, spacers aside, is the title, the date-range subtitle, and
\* then for Categories, Articles, Searches, Users in this order the heading
\* followed by the table of that aggregator, header row first; the document
\* written is the story.
C10_RenderOrder ==
    story # <<>> =>
        LET content == SelectSeq(story, IsContent)
        IN  /\ Len(content) = 10
            /\ content[1] = Paragraph(<<"Wiki KPI Report">>)
            /\ content[2].type = "Paragraph"
            /\ content[2].text = <<"Data from ">> \o formatted_start_date
                                   \o <<" to ">> \o formatted_end_date
            /\ \A k \in 1..4 :
                  /\ content[2 * k + 1] = Paragraph(<<RefHeadings[k]>>)
                  /\ content[2 * k + 2].type = "Table"
                  /\ content[2 * k + 2].data[1] = RefHeaders[k]
            /\ content[4].data = category_data
            /\ content[6].data = questions_data
            /\ content[8].data = search_data
            /\ content[10].data = user_data
            /\ pc = "done" => pdf = story

\* A finished run whose date range was unavailable.
C10_Witness ==
    /\ pc = "done"
    /\ formatted_start_date = Unavailable
    /\ Printed(DateErrorLine)
    /\ Len(category_data) > 1
    /\ pdf = story

====
